---- MODULE Spec2Model ----
(***************************************************************************)
(* The pomodoro timer engine (services/timer.rs) and the timer-owning      *)
(* thread of the daemon (services/module.rs, handle_client).               *)
(*                                                                         *)
(* The Timer is the record `state`, as in handle_client.  The loop body of *)
(* handle_client is cut at three places (pc): "recv" (try_recv and         *)
(* process_message), "emit" (format_time, get_class, update_state and the  *)
(* printed snapshot) and "sleep" (increment_time, store, sleep).           *)
(*                                                                         *)
(* Integer widths are kept: u16 for durations and elapsed time, i16 for    *)
(* deltas, u8 for the counters.  An arithmetic overflow panics in a build  *)
(* with overflow checks and wraps in a build without them; both outcomes   *)
(* are modelled (parameter `checks`), and `wrapped` remembers that the     *)
(* build has been seen to wrap.                                            *)
(***************************************************************************)
EXTENDS Integers, Sequences, FiniteSets, TLC

VARIABLES
    state,      \* the Timer owned by handle_client
    config,     \* the Config handed to handle_client
    pc,         \* position of the timer-owning thread in its loop
    snapshot,   \* what this loop iteration printed: <<>> or <<record>>
    notified,   \* the notification the last step triggered: <<>> or <<cycle>>
    cache,      \* the persisted state file: <<>> or <<Timer without its override>>
    wrapped,    \* TRUE once an overflow has wrapped (no overflow checks)
    received,   \* the message try_recv yielded in this iteration: <<>> or <<message>>
    works,      \* history: Work cycles completed since the last start over
    origin,     \* history: the Timer the thread started from
    queue,      \* the channel from the listener to handle_client: messages in flight
    listener,   \* position of the listener thread: "accept", "read", "exited", "panicked"
    sent,       \* history: the messages the listener sent, in order
    applied,    \* history: the messages handle_client received, in order
    endpoint,   \* the socket file: "bound" or "removed"
    backlog,    \* the connections made to the socket and not yet accepted
    reading,    \* the connection the listener reads: <<>> or <<connection>>
    signals,    \* position of the signal thread
    codec       \* a message or a text, what encode and what decode made of it

vars == <<state, config, pc, snapshot, notified, cache, wrapped, received, works, origin,
          queue, listener, sent, applied, endpoint, backlog, reading, signals, codec>>

(* What the listener thread and the channel hold, and what handle_client holds *)
socket == <<endpoint, backlog, reading, signals>>
channel == <<queue, listener, sent, applied, socket, codec>>
timer == <<state, config, pc, snapshot, notified, cache, wrapped, received, works, origin>>

----------------------------------------------------------------------------
(* Program constants *)

MAX_ITERATIONS == 4
SLEEP_TIME == 100
MINUTE == 60
HOUR == 3600
U16 == 65536
I16_MAX == 32767
U8 == 256

(* Bounds of the model *)

MaxMinutes == 1      \* absolute values sent are 0..MaxMinutes, deltas -MaxMinutes..MaxMinutes
MaxElapsed == 2      \* a running thread is followed while elapsed_time < MaxElapsed
MaxSessions == 1     \* ... and while session_completed < MaxSessions
MaxDuration == 119   \* a positive delta is sent only to a duration that stays <= MaxDuration
MaxChanged == 1      \* duration messages leave at most MaxChanged durations off the configured ones
MaxSent == 3         \* the listener is followed while it has sent fewer than MaxSent messages

----------------------------------------------------------------------------
(* Option<u16> as a sequence of length at most one *)

None == <<>>
Some(v) == <<v>>
unwrap_or(o, d) == IF o = None THEN d ELSE o[1]

(* The outcome of a step that panicked *)
Panic == [panic |-> TRUE]

Max(a, b) == IF a >= b THEN a ELSE b

(* i16 wrap-around of a product *)
WrapI16(x) == ((x + I16_MAX + 1) % U16) - (I16_MAX + 1)

(* `value as u16` of an i16 *)
AsU16(x) == x % U16

----------------------------------------------------------------------------
(* CycleType and its slot in times *)

Work == 0
ShortBreak == 1
LongBreak == 2
CycleType == {Work, ShortBreak, LongBreak}

CLASS_EMPTY == ""
CLASS_PAUSE == "pause"
CLASS_WORK == "work"
CLASS_BREAK == "break"

----------------------------------------------------------------------------
(* Timer *)

new(work_time, short_break, long_break, socker_nr) ==
    [ current_index     |-> 0,
      elapsed_millis    |-> 0,
      elapsed_time      |-> 0,
      times             |-> (0 :> work_time @@ 1 :> short_break @@ 2 :> long_break),
      iterations        |-> 0,
      session_completed |-> 0,
      running           |-> FALSE,
      socket_nr         |-> socker_nr,
      current_override  |-> None ]

(* Faulty variants of reset: a field is left as it was *)
reset_keeping_running(t) ==
    [t EXCEPT !.current_index = 0,
              !.elapsed_time = 0,
              !.elapsed_millis = 0,
              !.iterations = 0,
              !.current_override = None]

reset_keeping_iterations(t) ==
    [t EXCEPT !.current_index = 0,
              !.elapsed_time = 0,
              !.elapsed_millis = 0,
              !.running = FALSE,
              !.current_override = None]

reset_keeping_override(t) ==
    [t EXCEPT !.current_index = 0,
              !.elapsed_time = 0,
              !.elapsed_millis = 0,
              !.iterations = 0,
              !.running = FALSE]

reset(t) ==
    [t EXCEPT !.current_index = 0,
              !.elapsed_time = 0,
              !.elapsed_millis = 0,
              !.iterations = 0,
              !.running = FALSE,
              !.current_override = None]

is_break(t) == t.current_index # 0

get_current_time(t) == unwrap_or(t.current_override, t.times[t.current_index])

(* Faulty variant of set_time: the run is not reset *)
set_time_without_reset(t, cycle, input, checks) ==
    IF input * 60 >= U16 /\ checks
    THEN Panic
    ELSE [t EXCEPT !.times[cycle] = (input * 60) % U16]

set_time(t, cycle, input, checks) ==
    IF input * 60 >= U16 /\ checks
    THEN Panic
    ELSE [reset(t) EXCEPT !.times[cycle] = (input * 60) % U16]

add_delta_time(t, cycle, delta, checks) ==
    LET index == cycle
        product == delta * 60
        delta_seconds == WrapI16(product)
        current_time == t.times[index]
        new_time == Max(current_time + delta_seconds, 0) % U16
    IN  IF product # delta_seconds /\ checks
        THEN Panic
        ELSE IF new_time = 0 /\ t.current_index = index
             THEN [t EXCEPT !.elapsed_time = t.times[index],
                            !.elapsed_millis = 0]
             ELSE [t EXCEPT !.times[index] = new_time]

(* Faulty variant of set_current_duration: resets first, as set_time does *)
set_current_duration_resetting(t, minutes, checks) ==
    LET new_duration == (minutes * 60) % U16
    IN  IF minutes * 60 >= U16 /\ checks
        THEN Panic
        ELSE [reset(t) EXCEPT !.current_override = Some(new_duration)]

(* Faulty variant of set_current_duration: the duration is stored in times *)
set_current_duration_stored(t, minutes, checks) ==
    LET new_duration == (minutes * 60) % U16
        o == [t EXCEPT !.times[t.current_index] = new_duration]
    IN  IF minutes * 60 >= U16 /\ checks
        THEN Panic
        ELSE IF o.elapsed_time > new_duration
             THEN [o EXCEPT !.elapsed_time = new_duration,
                            !.elapsed_millis = 0]
             ELSE o

set_current_duration(t, minutes, checks) ==
    LET new_duration == (minutes * 60) % U16
        o == [t EXCEPT !.current_override = Some(new_duration)]
    IN  IF minutes * 60 >= U16 /\ checks
        THEN Panic
        ELSE IF o.elapsed_time > new_duration
             THEN [o EXCEPT !.elapsed_time = new_duration,
                            !.elapsed_millis = 0]
             ELSE o

add_current_delta_time(t, delta, checks) ==
    LET product == delta * 60
        delta_seconds == WrapI16(product)
        current_time == get_current_time(t)
        new_time == Max(current_time + delta_seconds, 0) % U16
    IN  IF product # delta_seconds /\ checks
        THEN Panic
        ELSE IF new_time = 0
             THEN [t EXCEPT !.elapsed_time = get_current_time(t),
                            !.elapsed_millis = 0,
                            !.current_override = Some(0)]
             ELSE LET o == [t EXCEPT !.current_override = Some(new_time)]
                  IN  IF o.elapsed_time > new_time
                      THEN [o EXCEPT !.elapsed_time = new_time,
                                     !.elapsed_millis = 0]
                      ELSE o

(* Faulty variant of get_class: paused is decided before untouched *)
get_class_pause_first(t) ==
    IF ~t.running
    THEN CLASS_PAUSE
    ELSE IF /\ t.elapsed_millis = 0
            /\ t.elapsed_time = 0
            /\ t.iterations = 0
            /\ t.session_completed = 0
    THEN CLASS_EMPTY
    ELSE IF ~is_break(t)
    THEN CLASS_WORK
    ELSE IF is_break(t)
    THEN CLASS_BREAK
    ELSE "panic"

get_class(t) ==
    IF /\ t.elapsed_millis = 0
       /\ t.elapsed_time = 0
       /\ t.iterations = 0
       /\ t.session_completed = 0
    THEN CLASS_EMPTY
    ELSE IF ~t.running
    THEN CLASS_PAUSE
    ELSE IF ~is_break(t)
    THEN CLASS_WORK
    ELSE IF is_break(t)
    THEN CLASS_BREAK
    ELSE "panic"

(* Faulty variant of fires: a saturating comparison *)
fires_saturating(t) == get_current_time(t) <= t.elapsed_time

(* The condition of update_state: get_current_time() - elapsed_time == 0,  *)
(* on u16.  With elapsed_time above the current time the subtraction       *)
(* overflows: the wrapped difference is not 0.                             *)
fires(t) == (get_current_time(t) - t.elapsed_time) % U16 = 0

(* Faulty variants of next_cycle: the long break one Work cycle late; the  *)
(* session not counted; iterations counted on leaving Work                 *)
next_cycle_late_long_break(t) ==
    IF t.current_index = 0 /\ t.iterations = MAX_ITERATIONS
    THEN [t EXCEPT !.current_index = 3 - 1,
                   !.iterations = MAX_ITERATIONS]
    ELSE IF t.current_index = 3 - 1 /\ t.iterations = MAX_ITERATIONS
    THEN [t EXCEPT !.current_index = 0,
                   !.iterations = 0,
                   !.session_completed = (t.session_completed + 1) % U8]
    ELSE LET i == (t.current_index + 1) % 2
         IN  [t EXCEPT !.current_index = i,
                       !.iterations = IF i = 0 THEN (t.iterations + 1) % U8
                                               ELSE t.iterations]

next_cycle_session_uncounted(t) ==
    IF t.current_index = 0 /\ t.iterations = MAX_ITERATIONS - 1
    THEN [t EXCEPT !.current_index = 3 - 1,
                   !.iterations = MAX_ITERATIONS]
    ELSE IF t.current_index = 3 - 1 /\ t.iterations = MAX_ITERATIONS
    THEN [t EXCEPT !.current_index = 0,
                   !.iterations = 0]
    ELSE LET i == (t.current_index + 1) % 2
         IN  [t EXCEPT !.current_index = i,
                       !.iterations = IF i = 0 THEN (t.iterations + 1) % U8
                                               ELSE t.iterations]

next_cycle_counting_on_break(t) ==
    IF t.current_index = 0 /\ t.iterations = MAX_ITERATIONS - 1
    THEN [t EXCEPT !.current_index = 3 - 1,
                   !.iterations = MAX_ITERATIONS]
    ELSE IF t.current_index = 3 - 1 /\ t.iterations = MAX_ITERATIONS
    THEN [t EXCEPT !.current_index = 0,
                   !.iterations = 0,
                   !.session_completed = (t.session_completed + 1) % U8]
    ELSE LET i == (t.current_index + 1) % 2
         IN  [t EXCEPT !.current_index = i,
                       !.iterations = IF i = 1 THEN (t.iterations + 1) % U8
                                               ELSE t.iterations]

(* Faulty variant of next_cycle: the long break is left through the        *)
(* toggle of Work and ShortBreak                                            *)
next_cycle_toggling_long_break(t) ==
    IF t.current_index = 0 /\ t.iterations = MAX_ITERATIONS - 1
    THEN [t EXCEPT !.current_index = 3 - 1,
                   !.iterations = MAX_ITERATIONS]
    ELSE LET i == (t.current_index + 1) % 2
         IN  [t EXCEPT !.current_index = i,
                       !.iterations = IF i = 0 THEN (t.iterations + 1) % U8
                                               ELSE t.iterations]

(* The index and the counters after the transition *)
next_cycle(t) ==
    IF t.current_index = 0 /\ t.iterations = MAX_ITERATIONS - 1
    THEN [t EXCEPT !.current_index = 3 - 1,
                   !.iterations = MAX_ITERATIONS]
    ELSE IF t.current_index = 3 - 1 /\ t.iterations = MAX_ITERATIONS
    THEN [t EXCEPT !.current_index = 0,
                   !.iterations = 0,
                   !.session_completed = (t.session_completed + 1) % U8]
    ELSE LET i == (t.current_index + 1) % 2
         IN  [t EXCEPT !.current_index = i,
                       !.iterations = IF i = 0 THEN (t.iterations + 1) % U8
                                               ELSE t.iterations]

(* The additions of next_cycle that overflow a u8 *)
next_cycle_overflows(t) ==
    IF t.current_index = 0 /\ t.iterations = MAX_ITERATIONS - 1
    THEN FALSE
    ELSE IF t.current_index = 3 - 1 /\ t.iterations = MAX_ITERATIONS
    THEN t.session_completed + 1 >= U8
    ELSE (t.current_index + 1) % 2 = 0 /\ t.iterations + 1 >= U8

(* Faulty variant of update_state: the auto flags are swapped *)
update_state_flags_swapped(t, cfg, checks) ==
    IF t.elapsed_time > get_current_time(t) /\ checks
    THEN Panic
    ELSE IF ~fires(t)
    THEN t
    ELSE LET c == [t EXCEPT !.current_override = None]
             n == [next_cycle(c) EXCEPT !.elapsed_time = 0]
         IN  IF next_cycle_overflows(c) /\ checks
             THEN Panic
             ELSE [n EXCEPT !.running = \/ (cfg.autow /\ is_break(n))
                                        \/ (cfg.autob /\ ~is_break(n))]

update_state(t, cfg, checks) ==
    IF t.elapsed_time > get_current_time(t) /\ checks
    THEN Panic
    ELSE IF ~fires(t)
    THEN t
    ELSE LET c == [t EXCEPT !.current_override = None]
             n == [next_cycle(c) EXCEPT !.elapsed_time = 0]
         IN  IF next_cycle_overflows(c) /\ checks
             THEN Panic
             ELSE [n EXCEPT !.running = \/ (cfg.autob /\ is_break(n))
                                        \/ (cfg.autow /\ ~is_break(n))]

(* Faulty variant of update_state_notification: every instance notifies *)
update_state_notification_every_instance(t, cfg, checks) ==
    IF update_state(t, cfg, checks) = Panic \/ ~fires(t)
    THEN None
    ELSE Some(update_state(t, cfg, checks).current_index)

(* The notification update_state sends: the new cycle, in instance 0 only *)
update_state_notification(t, cfg, checks) ==
    IF update_state(t, cfg, checks) = Panic \/ ~fires(t) \/ t.socket_nr # 0
    THEN None
    ELSE Some(update_state(t, cfg, checks).current_index)

(* Faulty variant of increment_time: the second rolls over one tick late *)
increment_time_late(t, checks) ==
    LET m == t.elapsed_millis + SLEEP_TIME
    IN  IF m > 1000
        THEN IF t.elapsed_time + 1 >= U16 /\ checks
             THEN Panic
             ELSE [t EXCEPT !.elapsed_millis = 0,
                            !.elapsed_time = (t.elapsed_time + 1) % U16]
        ELSE [t EXCEPT !.elapsed_millis = m]

increment_time(t, checks) ==
    LET m == t.elapsed_millis + SLEEP_TIME
    IN  IF m >= 1000
        THEN IF t.elapsed_time + 1 >= U16 /\ checks
             THEN Panic
             ELSE [t EXCEPT !.elapsed_millis = 0,
                            !.elapsed_time = (t.elapsed_time + 1) % U16]
        ELSE [t EXCEPT !.elapsed_millis = m]

(* Faulty variant of skip_to_end: elapsed_millis is left as it was *)
skip_to_end_keeping_millis(t) ==
    [t EXCEPT !.elapsed_time = get_current_time(t)]

(* Skip to the end of the current timer, then the transition *)
skip_to_end(t) ==
    [t EXCEPT !.elapsed_time = get_current_time(t),
              !.elapsed_millis = 0]

next_state(t, cfg, checks) == update_state(skip_to_end(t), cfg, checks)

----------------------------------------------------------------------------
(* services/module.rs *)

(* The remaining time, as hours, minutes and seconds *)
format_time(elapsed_time, max_time, checks) ==
    LET time == (max_time - elapsed_time) % U16
    IN  IF elapsed_time > max_time /\ checks
        THEN Panic
        ELSE [ hour   |-> time \div HOUR,
               minute |-> (time % HOUR) \div MINUTE,
               second |-> time % MINUTE ]

(* services/cache.rs: the serialized Timer; current_override is skipped *)
store(t) ==
    Some([ current_index     |-> t.current_index,
           elapsed_millis    |-> t.elapsed_millis,
           elapsed_time      |-> t.elapsed_time,
           times             |-> t.times,
           iterations        |-> t.iterations,
           session_completed |-> t.session_completed,
           running           |-> t.running,
           socket_nr         |-> t.socket_nr ])

(* Decoded messages; DecodeError is the Err of Message::decode *)
DecodeError == [type |-> "decode-error"]

SimpleCommands == { [type |-> c] : c \in {"start", "stop", "toggle", "reset", "next-state"} }

DurationCommands(values, deltas) ==
    { [type |-> c, value |-> v, is_delta |-> FALSE] :
        c \in {"set-work", "set-short", "set-long", "set-current"}, v \in values }
    \cup
    { [type |-> c, value |-> v, is_delta |-> TRUE] :
        c \in {"set-work", "set-short", "set-long", "set-current"}, v \in deltas }

CycleOf(type) ==
    CASE type = "set-work"  -> Work
      [] type = "set-short" -> ShortBreak
      [] type = "set-long"  -> LongBreak

(* Faulty variant of process_message: an undecodable frame resets the Timer *)
process_message_resetting(t, message, cfg, checks) ==
    CASE message.type = "start"      -> [t EXCEPT !.running = TRUE]
      [] message.type = "stop"       -> [t EXCEPT !.running = FALSE]
      [] message.type = "toggle"     -> [t EXCEPT !.running = ~t.running]
      [] message.type = "reset"      -> reset(t)
      [] message.type = "next-state" -> next_state(t, cfg, checks)
      [] message.type \in {"set-work", "set-short", "set-long"} ->
            IF message.is_delta
            THEN add_delta_time(t, CycleOf(message.type), message.value, checks)
            ELSE set_time(t, CycleOf(message.type), AsU16(message.value), checks)
      [] message.type = "set-current" ->
            IF message.is_delta
            THEN add_current_delta_time(t, message.value, checks)
            ELSE set_current_duration(t, AsU16(message.value), checks)
      [] OTHER -> reset(t)

(* Faulty variant of process_message: toggle starts the timer *)
process_message_toggle_starting(t, message, cfg, checks) ==
    CASE message.type = "start"      -> [t EXCEPT !.running = TRUE]
      [] message.type = "stop"       -> [t EXCEPT !.running = FALSE]
      [] message.type = "toggle"     -> [t EXCEPT !.running = TRUE]
      [] message.type = "reset"      -> reset(t)
      [] message.type = "next-state" -> next_state(t, cfg, checks)
      [] message.type \in {"set-work", "set-short", "set-long"} ->
            IF message.is_delta
            THEN add_delta_time(t, CycleOf(message.type), message.value, checks)
            ELSE set_time(t, CycleOf(message.type), AsU16(message.value), checks)
      [] message.type = "set-current" ->
            IF message.is_delta
            THEN add_current_delta_time(t, message.value, checks)
            ELSE set_current_duration(t, AsU16(message.value), checks)
      [] OTHER -> t

process_message(t, message, cfg, checks) ==
    CASE message.type = "start"      -> [t EXCEPT !.running = TRUE]
      [] message.type = "stop"       -> [t EXCEPT !.running = FALSE]
      [] message.type = "toggle"     -> [t EXCEPT !.running = ~t.running]
      [] message.type = "reset"      -> reset(t)
      [] message.type = "next-state" -> next_state(t, cfg, checks)
      [] message.type \in {"set-work", "set-short", "set-long"} ->
            IF message.is_delta
            THEN add_delta_time(t, CycleOf(message.type), message.value, checks)
            ELSE set_time(t, CycleOf(message.type), AsU16(message.value), checks)
      [] message.type = "set-current" ->
            IF message.is_delta
            THEN add_current_delta_time(t, message.value, checks)
            ELSE set_current_duration(t, AsU16(message.value), checks)
      [] OTHER -> t

process_message_notification(t, message, cfg, checks) ==
    IF message.type = "next-state"
    THEN update_state_notification(skip_to_end(t), cfg, checks)
    ELSE None

----------------------------------------------------------------------------
(* The messages the model sends, and the configurations it starts from *)

Messages ==
    SimpleCommands
    \cup DurationCommands(0..MaxMinutes, (0 - MaxMinutes)..MaxMinutes)
    \cup {DecodeError}

(* The duration a delta message is aimed at *)
Target(t, message) ==
    IF message.type = "set-current" THEN get_current_time(t)
    ELSE t.times[CycleOf(message.type)]

(* How many durations (the three of times and the override) are off the   *)
(* configured ones                                                         *)
Changed(t, cfg) ==
    Cardinality({ c \in CycleType :
                    t.times[c] # new(cfg.work_time, cfg.short_break, cfg.long_break, 0).times[c] })
    + (IF t.current_override = None THEN 0 ELSE 1)

Sendable(t, message, cfg) ==
    message.type \in {"set-work", "set-short", "set-long", "set-current"}
    => /\ (message.is_delta /\ message.value > 0)
            => Target(t, message) + message.value * 60 <= MaxDuration
       /\ Changed(process_message(t, message, cfg, FALSE), cfg) <= MaxChanged

Configs ==
    [ work_time : {2}, short_break : {1}, long_break : {1},
      autow : {TRUE}, autob : {FALSE}, persist : {FALSE} ]

----------------------------------------------------------------------------
(* handle_client *)

(* spawn_module: the channel is empty and the listener waits for a connection *)
ChannelInit ==
    /\ queue = <<>>
    /\ listener = "accept"
    /\ sent = <<>>
    /\ applied = <<>>
    /\ endpoint = "bound"
    /\ backlog = <<>>
    /\ reading = None
    /\ signals = "waiting"
    /\ codec = None

Init ==
    /\ config \in Configs
    /\ state = new(config.work_time, config.short_break, config.long_break, 0)
    /\ pc = "recv"
    /\ snapshot = <<>>
    /\ notified = None
    /\ cache = None
    /\ wrapped = FALSE
    /\ received = None
    /\ works = 0
    /\ origin = state
    /\ ChannelInit

(* A step whose outcome is `checked` in a build with overflow checks and   *)
(* `wrapping` in a build without.                                          *)
Outcome(checked, wrapping, next) ==
    IF checked # Panic
    THEN /\ state' = checked
         /\ pc' = next
         /\ wrapped' = wrapped
    ELSE \/ /\ ~wrapped
            /\ state' = state
            /\ pc' = "panicked"
            /\ wrapped' = wrapped
         \/ /\ state' = wrapping
            /\ pc' = next
            /\ wrapped' = TRUE

Followed ==
    /\ state.running => state.elapsed_time < MaxElapsed
    /\ state.session_completed < MaxSessions

(* History: the Work cycles completed once the cycle of t has completed *)
WorksAfter(t, w) ==
    IF t.current_index = Work THEN w + 1
    ELSE IF t.current_index = LongBreak THEN 0
    ELSE w

(* History: ... and once `message` has been processed *)
WorksAfterMessage(t, message, w) ==
    IF message.type = "next-state" THEN WorksAfter(t, w)
    ELSE IF message.type = "reset" THEN 0
    ELSE IF message.type \in {"set-work", "set-short", "set-long"} /\ ~message.is_delta THEN 0
    ELSE w

(* rx.try_recv() finds the queue empty *)
RecvNone ==
    /\ pc = "recv"
    /\ pc' = "emit"
    /\ notified' = None
    /\ received' = None
    /\ UNCHANGED <<state, config, snapshot, cache, wrapped, works, origin>>
    /\ UNCHANGED channel

(* process_message on the message rx.try_recv() yielded *)
Receive(message) ==
    /\ pc = "recv"
    /\ Sendable(state, message, config)
    /\ Outcome(process_message(state, message, config, TRUE),
               process_message(state, message, config, FALSE), "emit")
    /\ notified' = IF pc' = "panicked" THEN None
                   ELSE process_message_notification(state, message, config, FALSE)
    /\ works' = IF pc' = "panicked" THEN works
                ELSE WorksAfterMessage(state, message, works)
    /\ received' = Some(message)
    /\ UNCHANGED <<config, snapshot, cache, origin>>

(* rx.try_recv() yields a message, whatever the listener sent *)
RecvMessage(message) ==
    /\ Receive(message)
    /\ UNCHANGED channel

(* format_time, get_class, update_state, println *)
Emit ==
    /\ pc = "emit"
    /\ LET value(c) == format_time(state.elapsed_time, get_current_time(state), c)
       IN  IF value(TRUE) = Panic
           THEN \/ /\ ~wrapped
                   /\ pc' = "panicked"
                   /\ UNCHANGED <<state, snapshot, wrapped>>
                   /\ notified' = None
                \/ /\ state' = update_state(state, config, FALSE)
                   /\ pc' = "sleep"
                   /\ wrapped' = TRUE
                   /\ snapshot' = << [text |-> value(FALSE), class |-> get_class(state)] >>
                   /\ notified' = update_state_notification(state, config, FALSE)
           ELSE /\ Outcome(update_state(state, config, TRUE),
                           update_state(state, config, FALSE), "sleep")
                /\ snapshot' = IF pc' = "panicked" THEN snapshot
                               ELSE << [text |-> value(TRUE), class |-> get_class(state)] >>
                /\ notified' = IF pc' = "panicked" THEN None
                               ELSE update_state_notification(state, config, FALSE)
    /\ works' = IF pc' = "sleep" /\ fires(state) THEN WorksAfter(state, works) ELSE works
    /\ received' = None
    /\ UNCHANGED <<config, cache, origin>>
    /\ UNCHANGED channel

(* increment_time if running, store if persist, sleep *)
Advance ==
    /\ pc = "sleep"
    /\ IF state.running
       THEN Outcome(increment_time(state, TRUE), increment_time(state, FALSE), "recv")
       ELSE /\ pc' = "recv"
            /\ UNCHANGED <<state, wrapped>>
    /\ cache' = IF config.persist /\ pc' = "recv" THEN store(state') ELSE cache
    /\ snapshot' = <<>>
    /\ notified' = None
    /\ UNCHANGED <<config, works, received, origin>>
    /\ UNCHANGED channel

(* ... in the runs the model follows *)
Sleep ==
    /\ Followed
    /\ Advance

Next ==
    \/ RecvNone
    \/ \E message \in Messages : RecvMessage(message)
    \/ Emit
    \/ Sleep

Spec == Init /\ [][Next]_vars

----------------------------------------------------------------------------
(* Steps the claims speak of *)

NextStateMessage == [type |-> "next-state"]
ResetMessage == [type |-> "reset"]

(* This step processed `message` (and did not panic) *)
Processed(message) == pc = "recv" /\ pc' = "emit" /\ received' = Some(message)

(* The transition rule fires: in update_state of the loop, or in next_state *)
TransitionFires ==
    \/ pc = "emit" /\ fires(state) /\ pc' = "sleep"
    \/ Processed(NextStateMessage)

AbsoluteSets == { m \in DurationCommands(0..MaxMinutes, {}) : m.type # "set-current" }
SetCurrents == { m \in Messages : m.type = "set-current" }
DeltasOf(type) == { m \in Messages : m.type = type /\ m.is_delta }

Min(a, b) == IF a <= b THEN a ELSE b

----------------------------------------------------------------------------
(* C1: in every reachable state elapsed_time <= effective_duration, the    *)
(* override when set and times[current_index] otherwise, so the remaining  *)
(* time of the snapshot is never negative.                                 *)
C1_ElapsedWithinDuration == state.elapsed_time <= get_current_time(state)

(* C2: update_state changes the Timer if and only if elapsed_time equals   *)
(* the effective duration; when they differ every field is left unchanged  *)
(* and no notification is triggered.                                       *)
C2_UpdateStateFiresExactly ==
    [][ pc = "emit" =>
          /\ (state' # state) <=> (state.elapsed_time = get_current_time(state))
          /\ state.elapsed_time # get_current_time(state) => notified' = None
          /\ (state.elapsed_time = get_current_time(state) /\ state.socket_nr = 0)
                => notified' # None ]_vars

C2_Witness ==
    /\ pc = "sleep"
    /\ notified = Some(ShortBreak)
    /\ state.current_index = ShortBreak
    /\ state.elapsed_time = 0
    /\ snapshot # <<>> /\ snapshot[1].class = CLASS_WORK

(* C3: a transition fired on Work with iterations = MAX_ITERATIONS - 1     *)
(* goes to LongBreak with iterations = MAX_ITERATIONS and leaves           *)
(* session_completed; fired on Work with fewer iterations it goes to       *)
(* ShortBreak.                                                             *)
C3_WorkToLongBreak ==
    [][ (TransitionFires /\ state.current_index = Work) =>
          IF state.iterations = MAX_ITERATIONS - 1
          THEN /\ state'.current_index = LongBreak
               /\ state'.iterations = MAX_ITERATIONS
               /\ state'.session_completed = state.session_completed
          ELSE state.iterations < MAX_ITERATIONS - 1
                  => /\ state'.current_index = ShortBreak
                     /\ state'.iterations = state.iterations ]_vars

C3_Witness ==
    /\ state.current_index = LongBreak
    /\ state.iterations = MAX_ITERATIONS
    /\ notified = Some(LongBreak)

(* C4: a transition fired on LongBreak with iterations = MAX_ITERATIONS    *)
(* goes to Work with iterations = 0 and session_completed one greater; no  *)
(* other step changes session_completed.                                   *)
C4_SessionCompleted ==
    [][ /\ (TransitionFires /\ state.current_index = LongBreak
                            /\ state.iterations = MAX_ITERATIONS)
            => /\ state'.current_index = Work
               /\ state'.iterations = 0
               /\ state'.session_completed = state.session_completed + 1
        /\ state'.session_completed # state.session_completed
            => (TransitionFires /\ state.current_index = LongBreak
                                /\ state.iterations = MAX_ITERATIONS) ]_vars

C4_Witness ==
    /\ state.session_completed = 1
    /\ state.current_index = Work
    /\ state.iterations = 0
    /\ notified = Some(Work)

(* C5: from a fresh or reset Timer the cycles alternate Work, ShortBreak,  *)
(* Work, ...: on Work iterations counts the Work cycles completed, so it   *)
(* is 1 after the first round trip; LongBreak is entered exactly on        *)
(* completing the MAX_ITERATIONS-th Work cycle; completing it returns to   *)
(* Work with iterations = 0 and session_completed one greater.             *)
C5_CycleOrder ==
    /\ state.current_index = Work
        => state.iterations = works /\ works <= MAX_ITERATIONS - 1
    /\ state.current_index = ShortBreak
        => state.iterations = works - 1 /\ works \in 1..(MAX_ITERATIONS - 1)
    /\ state.current_index = LongBreak
        => state.iterations = MAX_ITERATIONS /\ works = MAX_ITERATIONS

C5_Witness ==
    /\ state.current_index = Work
    /\ works = 0
    /\ state.iterations = 0
    /\ state.session_completed = 1
    /\ notified = Some(Work)

(* C6: 0 <= current_index <= 2, 0 <= elapsed_millis < 1000 and             *)
(* 0 <= iterations <= MAX_ITERATIONS in every reachable state.             *)
C6_Ranges ==
    /\ state.current_index \in 0..2
    /\ state.elapsed_millis \in 0..999
    /\ state.iterations \in 0..MAX_ITERATIONS

C6_Witness ==
    /\ state.current_index = 2
    /\ state.elapsed_millis = 1000 - SLEEP_TIME
    /\ state.iterations = MAX_ITERATIONS

(* C7, as claimed: iterations becomes larger only in a transition that     *)
(* returns to Work from a break.                                           *)
C7_Original ==
    [][ state'.iterations > state.iterations
          => (TransitionFires /\ is_break(state) /\ state'.current_index = Work) ]_vars

(* C7, amended: iterations becomes larger only in a transition that        *)
(* returns to Work from a short break (by one) or that leaves Work for the *)
(* long break (to MAX_ITERATIONS); the transition that completes the long  *)
(* break sets it to 0.                                                     *)
C7_IterationsIncrease ==
    [][ /\ state'.iterations > state.iterations
            => /\ TransitionFires
               /\ \/ /\ state.current_index = ShortBreak
                     /\ state'.current_index = Work
                     /\ state'.iterations = state.iterations + 1
                  \/ /\ state.current_index = Work
                     /\ state'.current_index = LongBreak
                     /\ state'.iterations = MAX_ITERATIONS
        /\ (TransitionFires /\ state.current_index = LongBreak)
            => state'.iterations = 0 ]_vars

C7_Witness ==
    /\ state.current_index = Work
    /\ state.iterations = MAX_ITERATIONS - 1
    /\ notified = Some(Work)

(* C8: current_override is None right after every firing of the            *)
(* transition rule, after Reset and after an absolute SetWork, SetShort or *)
(* SetLong.                                                                *)
C8_OverrideOneCycle ==
    [][ ( \/ TransitionFires
          \/ Processed(ResetMessage)
          \/ \E m \in AbsoluteSets : Processed(m) )
        => state'.current_override = None ]_vars

(* The loop's update_state fired at elapsed_time 0 on a Work cycle whose   *)
(* configured duration is not 0: an override of 0 was in force.            *)
C8_Witness ==
    /\ pc = "sleep"
    /\ notified = Some(ShortBreak)
    /\ snapshot # <<>> /\ snapshot[1].class = CLASS_EMPTY
    /\ state.times[Work] > 0
    /\ state.current_override = None

C10_DeltaFastForward ==
    [][ \A c \in CycleType : \A m \in DeltasOf(IF c = Work THEN "set-work"
                                               ELSE IF c = ShortBreak THEN "set-short"
                                               ELSE "set-long") :
          ( /\ Processed(m)
            /\ state.current_index = c
            /\ state.current_override = None
            /\ state.elapsed_time <= state.times[c]
            /\ Max(state.times[c] + m.value * 60, 0) <= state.elapsed_time )
          => state'.elapsed_time = get_current_time(state') ]_vars

----------------------------------------------------------------------------
NegativeCurrentDeltas == { m \in DeltasOf("set-current") : m.value < 0 }

(* The command that adjusts the duration of cycle c *)
CommandOf(c) ==
    IF c = Work THEN "set-work"
    ELSE IF c = ShortBreak THEN "set-short"
    ELSE "set-long"

(* C11: after add_current_delta with a negative delta that brings the      *)
(* effective duration of the current cycle to zero, the very next          *)
(* update_state fires the transition to the next cycle.                    *)
C11_GracefulTransition ==
    [][ ( /\ pc = "emit"
          /\ received \in { Some(m) : m \in NegativeCurrentDeltas }
          /\ state.current_override = Some(0) )
        => /\ pc' = "sleep"
           /\ state'.current_index # state.current_index
           /\ state'.elapsed_time = 0
           /\ state'.current_override = None ]_vars

(* Deltas whose product with 60 leaves the i16 range: beyond               *)
(* I16_MAX \div 60 minutes                                                 *)
WideMessages ==
    {[type |-> "start"]}
    \cup DurationCommands({}, {0 - (I16_MAX \div 60) - 1, -1})

(* A wide delta is sent while every duration is the configured one *)
RecvWide(message) ==
    /\ Changed(state, config) = 0
    /\ RecvMessage(message)

NextWide ==
    \/ RecvNone
    \/ \E message \in WideMessages : RecvWide(message)
    \/ Emit
    \/ Sleep

SpecWide == Init /\ [][NextWide]_vars

(* C12: add_delta_duration(c, d) leaves times[c] = max(0, times[c] + 60*d), *)
(* computed without wrap-around or truncation.  Stated here for a cycle c   *)
(* that is not the active one, where no fast-forward applies.               *)
C12_DeltaFloored ==
    [][ \A c \in CycleType :
          ( /\ pc = "recv"
            /\ received' # None
            /\ received'[1].type = CommandOf(c)
            /\ received'[1].is_delta
            /\ state.current_index # c )
          => /\ pc' = "emit"
             /\ state'.times[c] = Max(state.times[c] + 60 * received'[1].value, 0) ]_vars

(* C13: set_duration(cycle, m) yields current_index = 0, elapsed_time = 0,  *)
(* elapsed_millis = 0, iterations = 0, running = false, no override and     *)
(* times[cycle] = m*60, and leaves the two other durations and              *)
(* session_completed unchanged.                                             *)
C13_SetDurationResets ==
    [][ \A m \in AbsoluteSets :
          Processed(m) =>
            /\ state'.current_index = 0
            /\ state'.elapsed_time = 0
            /\ state'.elapsed_millis = 0
            /\ state'.iterations = 0
            /\ state'.running = FALSE
            /\ state'.current_override = None
            /\ state'.times[CycleOf(m.type)] = m.value * 60
            /\ \A c \in CycleType \ {CycleOf(m.type)} : state'.times[c] = state.times[c]
            /\ state'.session_completed = state.session_completed ]_vars

C13_Witness ==
    /\ pc = "emit"
    /\ received = Some([type |-> "set-long", value |-> 1, is_delta |-> FALSE])
    /\ state.times[LongBreak] = 60
    /\ state.times[Work] = config.work_time
    /\ state.current_index = 0
    /\ state.iterations = 0
    /\ ~state.running

(* C14: reset() yields current_index = 0, elapsed_time = 0,                 *)
(* elapsed_millis = 0, iterations = 0, running = false and no override, and *)
(* leaves times and session_completed as they were.                         *)
C14_ResetFrame ==
    [][ Processed(ResetMessage) =>
          /\ state'.current_index = 0
          /\ state'.elapsed_time = 0
          /\ state'.elapsed_millis = 0
          /\ state'.iterations = 0
          /\ state'.running = FALSE
          /\ state'.current_override = None
          /\ state'.times = state.times
          /\ state'.session_completed = state.session_completed ]_vars

C14_Witness ==
    /\ pc = "emit"
    /\ received = Some(ResetMessage)
    /\ state.times[Work] = 60
    /\ state.current_index = 0
    /\ state.elapsed_time = 0
    /\ state.elapsed_millis = 0
    /\ state.iterations = 0
    /\ ~state.running
    /\ state.current_override = None

----------------------------------------------------------------------------
(* The thread started on a Timer that is on Work, part of the way through  *)
(* the cycle, and left to tick: the only message is Start.                 *)

NaturalConfigs ==
    [ work_time : 1..MaxElapsed, short_break : 1..MaxElapsed, long_break : 1..MaxElapsed,
      autow : BOOLEAN, autob : BOOLEAN, persist : {FALSE} ]

InitNatural ==
    /\ config \in NaturalConfigs
    /\ state \in { [new(config.work_time, config.short_break, config.long_break, 0)
                      EXCEPT !.iterations = i,
                             !.running = r,
                             !.elapsed_time = e,
                             !.elapsed_millis = ms] :
                   i \in 0..(MAX_ITERATIONS - 1), r \in BOOLEAN,
                   e \in 0..(config.work_time - 1), ms \in {0, 5 * SLEEP_TIME} }
    /\ pc = "recv"
    /\ snapshot = <<>>
    /\ notified = None
    /\ cache = None
    /\ wrapped = FALSE
    /\ received = None
    /\ works = state.iterations
    /\ origin = state
    /\ ChannelInit

(* The loop's update_state has just brought the Timer back to Work *)
Returned ==
    /\ pc = "sleep"
    /\ notified = Some(Work)
    /\ state.current_index = Work

NaturalSleep == ~Returned /\ Sleep

NextNatural ==
    \/ RecvNone
    \/ RecvMessage([type |-> "start"])
    \/ Emit
    \/ NaturalSleep

SpecNatural == InitNatural /\ [][NextNatural]_vars

(* C15: next_state applied twice to a Timer on Work gives the same Timer   *)
(* as letting it tick through the Work cycle and the following break to    *)
(* completion, for any non-zero durations and any auto-continue flags.     *)
C15_SkipEqualsTicking ==
    Returned => state = next_state(next_state(origin, config, TRUE), config, TRUE)

C15_Witness ==
    /\ Returned
    /\ state.session_completed = 1
    /\ origin.elapsed_millis = 5 * SLEEP_TIME
    /\ ~origin.running
    /\ ~config.autob
    /\ config.long_break = MaxElapsed

----------------------------------------------------------------------------
(* Every combination of the auto flags, a short break of no length         *)
(* included (--shortbreak 0), and the commands without a value.            *)

AutoConfigs ==
    [ work_time : {1}, short_break : {0, 1}, long_break : {1},
      autow : BOOLEAN, autob : BOOLEAN, persist : {FALSE} ]

InitAuto ==
    /\ config \in AutoConfigs
    /\ state = new(config.work_time, config.short_break, config.long_break, 0)
    /\ pc = "recv"
    /\ snapshot = <<>>
    /\ notified = None
    /\ cache = None
    /\ wrapped = FALSE
    /\ received = None
    /\ works = 0
    /\ origin = state
    /\ ChannelInit

NextAuto ==
    \/ RecvNone
    \/ \E message \in SimpleCommands : RecvMessage(message)
    \/ Emit
    \/ Sleep

SpecAuto == InitAuto /\ [][NextAuto]_vars

(* running, as the transition rule recomputes it for the new cycle *)
Continues(t, cfg) == (cfg.autob /\ is_break(t)) \/ (cfg.autow /\ ~is_break(t))

(* Paused at the very start of a cycle that a transition led to *)
Parked ==
    /\ ~state.running
    /\ state.elapsed_time = 0
    /\ state.elapsed_millis = 0
    /\ state.current_index # Work \/ state.iterations > 0 \/ state.session_completed > 0

(* This step applies no message: a tick of the loop *)
NoMessage == ~(pc = "recv" /\ received' # None)

(* C16, as claimed: right after every firing of the transition rule        *)
(* running = (autob and the new cycle is a break) or (autow and the new    *)
(* cycle is Work); with both flags off the timer is then paused and stays  *)
(* in the new cycle with elapsed_time = 0 until a message is applied.      *)
C16_Original ==
    [][ /\ TransitionFires => state'.running = Continues(state', config)
        /\ (~config.autow /\ ~config.autob) =>
              /\ TransitionFires => ~state'.running /\ state'.elapsed_time = 0
              /\ (Parked /\ NoMessage) =>
                    /\ state'.current_index = state.current_index
                    /\ state'.elapsed_time = 0
                    /\ ~state'.running ]_vars

(* C16, amended: ... and stays in the new cycle with elapsed_time = 0      *)
(* until a message is applied, provided the duration of the new cycle is   *)
(* not 0; a cycle of duration 0 completes on the next tick, paused or not. *)
C16_RunningAfterTransition ==
    [][ /\ TransitionFires => state'.running = Continues(state', config)
        /\ (~config.autow /\ ~config.autob) =>
              /\ TransitionFires => ~state'.running /\ state'.elapsed_time = 0
              /\ (Parked /\ NoMessage /\ get_current_time(state) # 0) =>
                    /\ state'.current_index = state.current_index
                    /\ state'.elapsed_time = 0
                    /\ ~state'.running
              /\ (Parked /\ pc = "emit" /\ get_current_time(state) = 0) =>
                    state'.current_index # state.current_index ]_vars

C16_Witness ==
    /\ ~config.autow /\ ~config.autob
    /\ pc = "sleep"
    /\ Parked
    /\ state.current_index = ShortBreak
    /\ get_current_time(state) # 0
    /\ notified = None
    /\ snapshot # <<>> /\ snapshot[1].class = CLASS_PAUSE

----------------------------------------------------------------------------
Untouched ==
    /\ state.elapsed_millis = 0
    /\ state.elapsed_time = 0
    /\ state.iterations = 0
    /\ state.session_completed = 0

(* C17: in every reachable state get_class returns exactly one of empty,   *)
(* pause, work and break, in the priority order untouched, paused, work,   *)
(* break; empty if and only if elapsed_millis, elapsed_time, iterations    *)
(* and session_completed are all zero.                                     *)
C17_ClassOfState ==
    /\ get_class(state) \in {CLASS_EMPTY, CLASS_PAUSE, CLASS_WORK, CLASS_BREAK}
    /\ get_class(state) = CLASS_EMPTY <=> Untouched
    /\ get_class(state) = CLASS_PAUSE <=> (~Untouched /\ ~state.running)
    /\ get_class(state) = CLASS_WORK
          <=> (~Untouched /\ state.running /\ state.current_index = Work)
    /\ get_class(state) = CLASS_BREAK
          <=> (~Untouched /\ state.running /\ state.current_index \in {ShortBreak, LongBreak})
    /\ snapshot # <<>>
          => snapshot[1].class \in {CLASS_EMPTY, CLASS_PAUSE, CLASS_WORK, CLASS_BREAK}

C17_Witness ==
    /\ pc = "sleep"
    /\ snapshot # <<>> /\ snapshot[1].class = CLASS_BREAK
    /\ get_class(state) = CLASS_BREAK
    /\ state.current_index = LongBreak

(* C18: input that decodes to no Message leaves every field of the Timer   *)
(* unchanged, and the loop goes on with this tick.                         *)
C18_UndecodableDropped ==
    [][ (pc = "recv" /\ received' = Some(DecodeError))
          => /\ state' = state
             /\ pc' = "emit"
             /\ notified' = None ]_vars

C18_Witness ==
    /\ pc = "emit"
    /\ received = Some(DecodeError)
    /\ state.running
    /\ state.elapsed_millis > 0
    /\ state.iterations > 0
    /\ state.current_override # None

----------------------------------------------------------------------------
(* spawn_module: the listener thread, the channel and handle_client        *)

(* Faulty variant of try_recv: the newest message first *)
try_recv_newest(q) == q[Len(q)]

(* rx.try_recv() on a channel that holds messages: the oldest one *)
try_recv(q) == Head(q)

(* Faulty variant of try_recv_empty: a receive that waits for a message *)
recv_waits(q) == FALSE

(* rx.try_recv() on a channel that holds none returns at once *)
try_recv_empty(q) == q = <<>>

QueueMessages == {[type |-> "start"], [type |-> "stop"]}

(* listener.incoming() yields a connection *)
Accept ==
    /\ listener = "accept"
    /\ listener' = "read"
    /\ UNCHANGED <<queue, sent, applied, socket, codec>>
    /\ UNCHANGED timer

(* read_to_string returns the frame: tx.send *)
Forward(message) ==
    /\ listener = "read"
    /\ Len(sent) < MaxSent
    /\ listener' = "accept"
    /\ queue' = Append(queue, message)
    /\ sent' = Append(sent, message)
    /\ UNCHANGED <<applied, socket, codec>>
    /\ UNCHANGED timer

(* read_to_string returns a frame that contains "exit": delete_socket, break *)
Exit ==
    /\ listener = "read"
    /\ listener' = "exited"
    /\ endpoint' = "removed"
    /\ UNCHANGED <<queue, sent, applied, backlog, reading, signals, codec>>
    /\ UNCHANGED timer

(* read_to_string fails: expect panics *)
ReadFails ==
    /\ listener = "read"
    /\ listener' = "panicked"
    /\ UNCHANGED <<queue, sent, applied, socket, codec>>
    /\ UNCHANGED timer

QueueRecvNone ==
    /\ try_recv_empty(queue)
    /\ RecvNone

QueueRecv ==
    /\ queue # <<>>
    /\ Receive(try_recv(queue))
    /\ queue' = Tail(queue)
    /\ applied' = Append(applied, try_recv(queue))
    /\ UNCHANGED <<listener, sent, socket, codec>>

ListenerStep ==
    \/ Accept
    \/ \E message \in QueueMessages : Forward(message)
    \/ Exit
    \/ ReadFails

TimerStep ==
    \/ QueueRecvNone
    \/ QueueRecv
    \/ Emit
    \/ Sleep

NextQueue ==
    \/ Accept
    \/ \E message \in QueueMessages : Forward(message)
    \/ Exit
    \/ ReadFails
    \/ QueueRecvNone
    \/ QueueRecv
    \/ Emit
    \/ Sleep

SpecQueue == Init /\ [][NextQueue]_vars

(* C19: handle_client applies at most one queued message per tick, and in  *)
(* the order the listener sent them: none twice, none out of order.        *)
C19_OnePerTickInOrder ==
    [][ /\ sent' = applied' \o queue'
        /\ applied' # applied
              => /\ pc = "recv" /\ pc' # "recv"
                 /\ applied' = Append(applied, Head(queue))
                 /\ received' = Some(Head(queue)) ]_vars

C19_Witness ==
    /\ applied = << [type |-> "start"], [type |-> "stop"] >>
    /\ queue = << [type |-> "start"] >>
    /\ pc = "emit"
    /\ ~state.running
    /\ state.elapsed_millis > 0

(* C20: the listener never blocks handle_client: whatever the listener is  *)
(* doing and with the channel empty, the loop can take its next step; and  *)
(* the Timer is changed by steps of handle_client only.                    *)
C20_ListenerNeverBlocksTimer ==
    [][ /\ (pc \in {"recv", "emit"} \/ (pc = "sleep" /\ Followed)) => ENABLED TimerStep
        /\ (listener' # listener \/ sent' # sent) => UNCHANGED timer
        /\ state' # state => (pc' # pc /\ UNCHANGED <<listener, sent>>) ]_vars

C20_Witness ==
    /\ listener = "read"
    /\ queue = <<>>
    /\ applied = << [type |-> "start"] >>
    /\ sent = applied
    /\ pc = "sleep"
    /\ state.current_index = ShortBreak
    /\ notified = Some(ShortBreak)
    /\ snapshot # <<>> /\ snapshot[1].class = CLASS_WORK

----------------------------------------------------------------------------
(* models/message.rs: the wire format.  A text is a sequence of            *)
(* characters, each a string of length one; an empty text is <<>>.         *)

WHITESPACE == {" ", "\n", "\t"}
SIGNS == {"+", "-"}
DIGITS == <<"0", "1", "2", "3", "4", "5", "6", "7", "8", "9">>
LOWER == <<"a", "b", "c", "d", "e", "f", "g", "h", "i", "j", "k", "l", "m",
           "n", "o", "p", "q", "r", "s", "t", "u", "v", "w", "x", "y", "z">>
HEX == DIGITS \o <<"a", "b", "c", "d", "e", "f">>

Chars(seq) == { seq[i] : i \in 1..Len(seq) }
IndexOf(seq, c) == CHOOSE i \in 1..Len(seq) : seq[i] = c

(* Result *)
Ok(v) == [ok |-> TRUE, value |-> v]
Err == [ok |-> FALSE]

(* str::contains *)
contains(text, pattern) ==
    \E i \in 1..(Len(text) - Len(pattern) + 1) :
        SubSeq(text, i, i + Len(pattern) - 1) = pattern

RECURSIVE trim_start(_)
trim_start(text) ==
    IF text # <<>> /\ text[1] \in WHITESPACE THEN trim_start(Tail(text)) ELSE text

RECURSIVE trim_end(_)
trim_end(text) ==
    IF text # <<>> /\ text[Len(text)] \in WHITESPACE
    THEN trim_end(SubSeq(text, 1, Len(text) - 1))
    ELSE text

(* str::trim *)
trim(text) == trim_end(trim_start(text))

(* Display of an integer: the decimal digits, a minus sign before a negative one *)
RECURSIVE to_string(_)
to_string(n) ==
    IF n < 0 THEN <<"-">> \o to_string(0 - n)
    ELSE IF n < 10 THEN <<DIGITS[n + 1]>>
    ELSE to_string(n \div 10) \o <<DIGITS[(n % 10) + 1]>>

RECURSIVE digits_value(_)
digits_value(s) ==
    IF s = <<>> THEN 0
    ELSE digits_value(SubSeq(s, 1, Len(s) - 1)) * 10 + (IndexOf(DIGITS, s[Len(s)]) - 1)

(* str::parse::<u16> of a text of digits *)
parse_u16(s) ==
    IF digits_value(s) < U16 THEN Ok(digits_value(s)) ELSE Err

(* TimeValue *)
Set(v) == [variant |-> "Set", v |-> v]
Add(v) == [variant |-> "Add", v |-> v]
Subtract(v) == [variant |-> "Subtract", v |-> v]

(* TimeValue::from_str: TIME_VALUE_REGEX is ^([+-])?(\d+)([+-])?$ *)
from_str(s) ==
    LET prefix == IF s # <<>> /\ s[1] \in SIGNS THEN Some(s[1]) ELSE None
        after  == IF prefix = None THEN s ELSE Tail(s)
        suffix == IF after # <<>> /\ after[Len(after)] \in SIGNS
                  THEN Some(after[Len(after)]) ELSE None
        number_str == IF suffix = None THEN after ELSE SubSeq(after, 1, Len(after) - 1)
        number == parse_u16(number_str)
        sign   == IF prefix # None THEN prefix ELSE suffix
    IN  IF number_str = <<>> \/ ~(Chars(number_str) \subseteq Chars(DIGITS)) THEN Err
        ELSE IF ~number.ok THEN Err
        ELSE IF prefix # None /\ suffix # None THEN Err
        ELSE IF sign = Some("+") THEN Ok(Add(WrapI16(number.value)))
        ELSE IF sign = Some("-") THEN Ok(Subtract(WrapI16(number.value)))
        ELSE Ok(Set(number.value))

(* Serialize for TimeValue *)
serialize(time) ==
    CASE time.variant = "Set"      -> to_string(time.v)
      [] time.variant = "Add"      -> <<"+">> \o to_string(time.v)
      [] time.variant = "Subtract" -> <<"-">> \o to_string(time.v)

(* Message, #[serde(rename_all = "kebab-case")] *)
UnitVariants == {"start", "stop", "toggle", "reset", "next-state"}
StructVariants == {"set-work", "set-short", "set-long", "set-current"}

kebab_case(variant) ==
    CASE variant = "start"       -> <<"s", "t", "a", "r", "t">>
      [] variant = "stop"        -> <<"s", "t", "o", "p">>
      [] variant = "toggle"      -> <<"t", "o", "g", "g", "l", "e">>
      [] variant = "reset"       -> <<"r", "e", "s", "e", "t">>
      [] variant = "next-state"  -> <<"n", "e", "x", "t", "-", "s", "t", "a", "t", "e">>
      [] variant = "set-work"    -> <<"s", "e", "t", "-", "w", "o", "r", "k">>
      [] variant = "set-short"   -> <<"s", "e", "t", "-", "s", "h", "o", "r", "t">>
      [] variant = "set-long"    -> <<"s", "e", "t", "-", "l", "o", "n", "g">>
      [] variant = "set-current" -> <<"s", "e", "t", "-", "c", "u", "r", "r", "e", "n", "t">>

TIME == <<"t", "i", "m", "e">>
NULL == <<"n", "u", "l", "l">>

quoted(text) == <<"\"">> \o text \o <<"\"">>

(* Message::encode: serde_json::to_string *)
encode(message) ==
    IF message.type \in UnitVariants
    THEN quoted(kebab_case(message.type))
    ELSE <<"{">> \o quoted(kebab_case(message.type)) \o <<":", "{">>
         \o quoted(TIME) \o <<":">> \o quoted(serialize(message.time)) \o <<"}", "}">>

(* serde_json: the character of a \u escape; "?" stands for the characters *)
(* no text of the model is made of                                         *)
from_u32(n) ==
    IF n \in 97..122 THEN LOWER[n - 96]
    ELSE IF n \in 48..57 THEN DIGITS[n - 47]
    ELSE IF n = 45 THEN "-"
    ELSE IF n = 43 THEN "+"
    ELSE IF n = 32 THEN " "
    ELSE "?"

hex(c) == IndexOf(HEX, c) - 1

(* serde_json: a JSON string, read from after its opening quote *)
RECURSIVE parse_str(_, _)
parse_str(text, content) ==
    IF text = <<>> THEN Err
    ELSE IF text[1] = "\"" THEN Ok([content |-> content, rest |-> Tail(text)])
    ELSE IF text[1] = "\\"
    THEN IF Len(text) >= 2 /\ text[2] \in {"\"", "\\", "/"}
         THEN parse_str(SubSeq(text, 3, Len(text)), Append(content, text[2]))
         ELSE IF Len(text) >= 2 /\ text[2] = "n"
         THEN parse_str(SubSeq(text, 3, Len(text)), Append(content, "\n"))
         ELSE IF Len(text) >= 2 /\ text[2] = "t"
         THEN parse_str(SubSeq(text, 3, Len(text)), Append(content, "\t"))
         ELSE IF Len(text) >= 6 /\ text[2] = "u" /\ \A i \in 3..6 : text[i] \in Chars(HEX)
         THEN parse_str(SubSeq(text, 7, Len(text)),
                        Append(content, from_u32(((hex(text[3]) * 16 + hex(text[4])) * 16
                                                  + hex(text[5])) * 16 + hex(text[6]))))
         ELSE Err
    ELSE IF text[1] \in {"\n", "\t"} THEN Err
    ELSE parse_str(Tail(text), Append(content, text[1]))

(* serde_json: a JSON string after optional whitespace *)
string(text) ==
    LET t == trim_start(text)
    IN  IF t # <<>> /\ t[1] = "\"" THEN parse_str(Tail(t), <<>>) ELSE Err

(* serde_json: the character c after optional whitespace *)
char(text, c) ==
    LET t == trim_start(text)
    IN  IF t # <<>> /\ t[1] = c THEN Ok(Tail(t)) ELSE Err

(* serde_json: the literal null after optional whitespace *)
null(text) ==
    LET t == trim_start(text)
    IN  IF Len(t) >= 4 /\ SubSeq(t, 1, 4) = NULL THEN Ok(SubSeq(t, 5, Len(t))) ELSE Err

(* Deserialize for Message: the variant a name stands for, or none *)
variant_of(name) ==
    IF \E v \in UnitVariants \cup StructVariants : kebab_case(v) = name
    THEN Some(CHOOSE v \in UnitVariants \cup StructVariants : kebab_case(v) = name)
    ELSE None

(* Deserialize for Message: {"time": "<time value>"} *)
fields(text) ==
    LET open  == char(text, "{")
        key   == string(open.value)
        colon == char(key.value.rest, ":")
        value == string(colon.value)
        time  == from_str(value.value.content)
        close == char(value.value.rest, "}")
    IN  IF /\ open.ok /\ key.ok /\ key.value.content = TIME /\ colon.ok
           /\ value.ok /\ time.ok /\ close.ok
        THEN Ok([time |-> time.value, rest |-> close.value])
        ELSE Err

(* serde_json::from_str::<Message>: "<unit variant>", {"<unit variant>": null} *)
(* or {"<struct variant>": {"time": "<time value>"}}, whitespace around each   *)
serde_json_from_str(input) ==
    LET t       == trim_start(input)
        name    == string(t)
        open    == char(t, "{")
        key     == string(open.value)
        variant == variant_of(key.value.content)
        colon   == char(key.value.rest, ":")
        unit    == null(colon.value)
        struct  == fields(colon.value)
        close   == char(IF variant[1] \in UnitVariants THEN unit.value ELSE struct.value.rest, "}")
    IN  IF name.ok
        THEN IF /\ trim_start(name.value.rest) = <<>>
                /\ variant_of(name.value.content) # None
                /\ variant_of(name.value.content)[1] \in UnitVariants
             THEN Ok([type |-> variant_of(name.value.content)[1]])
             ELSE Err
        ELSE IF /\ open.ok /\ key.ok /\ variant # None /\ colon.ok
                /\ IF variant[1] \in UnitVariants THEN unit.ok ELSE struct.ok
                /\ close.ok
                /\ trim_start(close.value) = <<>>
        THEN IF variant[1] \in UnitVariants
             THEN Ok([type |-> variant[1]])
             ELSE Ok([type |-> variant[1], time |-> struct.value.time])
        ELSE Err

(* Message::decode: as it is, then once more between quotes and trimmed *)
decode(input) ==
    LET first == serde_json_from_str(input)
    IN  IF first.ok THEN first
        ELSE serde_json_from_str(quoted(trim(input)))

----------------------------------------------------------------------------
(* spawn_module, frame by frame: clients and the signal thread connect to  *)
(* the socket, the listener accepts one connection at a time and reads it  *)
(* to its end, handle_client decodes what the listener sent.               *)

EXIT == <<"e", "x", "i", "t">>

(* control_cli.rs: the Message process_message matches on, from a TimeValue *)
time_value_to_message(value, cycle_type) ==
    CASE value.variant = "Set" ->
            [type |-> cycle_type, value |-> WrapI16(value.v), is_delta |-> FALSE]
      [] value.variant = "Add" ->
            [type |-> cycle_type, value |-> value.v, is_delta |-> TRUE]
      [] value.variant = "Subtract" ->
            [type |-> cycle_type, value |-> WrapI16(0 - value.v), is_delta |-> TRUE]

(* process_message: Message::decode of the frame *)
Decoded(frame) ==
    LET msg == decode(frame)
    IN  IF ~msg.ok THEN DecodeError
        ELSE IF msg.value.type \in UnitVariants THEN msg.value
        ELSE time_value_to_message(msg.value.time, msg.value.type)

(* The frames clients send: a keyword, a duration command that takes the   *)
(* current cycle to zero, the exit signal as echo sends it, and the exit   *)
(* signal in upper case                                                    *)
Frames ==
    { kebab_case("start"),
      encode([type |-> "set-current", time |-> Subtract(1)]),
      EXIT \o <<"\n">>,
      <<"E", "X", "I", "T">> }

(* The process lives until its main thread returns or panics *)
Alive == listener \notin {"exited", "panicked"}

Connections == Len(sent) + Len(backlog) + Len(reading)

(* A client connects; it writes its frame and closes, at once or later *)
Connect(frame, closes) ==
    /\ Alive
    /\ endpoint = "bound"
    /\ Connections < MaxSent
    /\ backlog' = Append(backlog, [frame |-> frame, closed |-> closes])
    /\ UNCHANGED <<queue, listener, sent, applied, endpoint, reading, signals, codec>>
    /\ UNCHANGED timer

(* The client of the connection being read closes its end *)
Close ==
    /\ Alive
    /\ reading # None
    /\ ~reading[1].closed
    /\ reading' = Some([reading[1] EXCEPT !.closed = TRUE])
    /\ UNCHANGED <<queue, listener, sent, applied, endpoint, backlog, signals, codec>>
    /\ UNCHANGED timer

(* SIGINT, SIGTERM or SIGHUP is delivered: signals.forever() yields *)
Signal ==
    /\ Alive
    /\ signals = "waiting"
    /\ Connections < MaxSent
    /\ signals' = "delivered"
    /\ UNCHANGED <<queue, listener, sent, applied, endpoint, backlog, reading, codec>>
    /\ UNCHANGED timer

(* process_signals: send_message_socket(&socket_path, "exit") *)
SendExit ==
    /\ Alive
    /\ signals = "delivered"
    /\ IF endpoint = "bound"
       THEN /\ backlog' = Append(backlog, [frame |-> EXIT, closed |-> TRUE])
            /\ signals' = "waiting"
       ELSE /\ signals' = "panicked"
            /\ UNCHANGED backlog
    /\ UNCHANGED <<queue, listener, sent, applied, endpoint, reading, codec>>
    /\ UNCHANGED timer

(* listener.incoming() yields the next connection *)
AcceptConnection ==
    /\ listener = "accept"
    /\ backlog # <<>>
    /\ listener' = "read"
    /\ reading' = Some(Head(backlog))
    /\ backlog' = Tail(backlog)
    /\ UNCHANGED <<queue, sent, applied, endpoint, signals, codec>>
    /\ UNCHANGED timer


(* read_to_string returns at the end of the stream: exit, or tx.send, which *)
(* fails once handle_client has panicked and dropped the receiver           *)
ReadFrame ==
    /\ listener = "read"
    /\ reading[1].closed
    /\ LET message == reading[1].frame
       IN  IF contains(message, EXIT)
           THEN /\ endpoint' = "removed"
                /\ listener' = "exited"
                /\ UNCHANGED <<queue, sent>>
           ELSE IF pc = "panicked"
           THEN /\ listener' = "panicked"
                /\ UNCHANGED <<queue, sent, endpoint>>
           ELSE /\ queue' = Append(queue, message)
                /\ sent' = Append(sent, message)
                /\ listener' = "accept"
                /\ UNCHANGED endpoint
    /\ reading' = None
    /\ UNCHANGED <<applied, backlog, signals, codec>>
    /\ UNCHANGED timer

FrameRecvNone ==
    /\ Alive
    /\ QueueRecvNone

(* rx.try_recv() yields a frame: process_message decodes and applies it *)
FrameRecv ==
    /\ Alive
    /\ queue # <<>>
    /\ Receive(Decoded(try_recv(queue)))
    /\ queue' = Tail(queue)
    /\ applied' = Append(applied, try_recv(queue))
    /\ UNCHANGED <<listener, sent, socket, codec>>

FrameEmit ==
    /\ Alive
    /\ Emit

FrameSleep ==
    /\ Alive
    /\ Sleep

NextListener ==
    \/ \E frame \in Frames, closes \in BOOLEAN : Connect(frame, closes)
    \/ Close
    \/ Signal
    \/ SendExit
    \/ AcceptConnection
    \/ ReadFrame
    \/ ReadFails
    \/ FrameRecvNone
    \/ FrameRecv
    \/ FrameEmit
    \/ FrameSleep

SpecListener == Init /\ [][NextListener]_vars

(* The listener has read the connection to its end *)
FrameRead == listener = "read" /\ reading' = None

Carried(frames) == \E i \in 1..Len(frames) : contains(frames[i], EXIT)

(* C21: when the listener reads a frame that carries the exit signal it    *)
(* removes the endpoint and stops, that frame is neither sent to the queue *)
(* nor applied, and nothing is sent after it; every other frame the        *)
(* listener reads is appended to the queue as it was read.                 *)
C21_ExitFrameStopsListener ==
    [][ /\ (FrameRead /\ contains(reading[1].frame, EXIT))
            => /\ endpoint' = "removed"
               /\ listener' = "exited"
               /\ UNCHANGED <<queue, sent, applied, state>>
        /\ ~Carried(queue') /\ ~Carried(sent') /\ ~Carried(applied')
        /\ listener = "exited" => UNCHANGED <<queue, sent, applied, state>>
        /\ (FrameRead /\ ~contains(reading[1].frame, EXIT))
            => /\ queue' = Append(queue, reading[1].frame)
               /\ sent' = Append(sent, reading[1].frame)
               /\ listener' = "accept" ]_vars

(* The daemon while no read fails and handle_client does not panic: the    *)
(* clients send a keyword.  The listener thread and the signal thread are  *)
(* scheduled: a connection that waits is accepted, a stream that has ended *)
(* is read, a signal that was delivered is handled.  Nothing makes a       *)
(* client close its connection.                                            *)
NextSignal ==
    \/ \E closes \in BOOLEAN : Connect(kebab_case("start"), closes)
    \/ Close
    \/ Signal
    \/ SendExit
    \/ AcceptConnection
    \/ ReadFrame
    \/ FrameRecvNone
    \/ FrameRecv
    \/ FrameEmit
    \/ FrameSleep

SpecSignal ==
    /\ Init /\ [][NextSignal]_vars
    /\ WF_vars(AcceptConnection)
    /\ WF_vars(ReadFrame)
    /\ WF_vars(SendExit)

(* C22: after a termination signal is delivered, the endpoint is           *)
(* eventually removed and the listener loop eventually stops, whatever the *)
(* listener is doing when the signal arrives.                              *)
C22_SignalRemovesEndpoint ==
    (signals = "delivered") ~> (endpoint = "removed" /\ listener = "exited")

(* read_to_string returned Err on the connection the listener reads *)
ReadFailed == listener = "read" /\ listener' # listener /\ reading' = reading

(* C23: a read error on an accepted connection abandons that connection    *)
(* only: the listener goes back to accepting connections, the Timer is     *)
(* unchanged and the daemon keeps running.                                 *)
C23_ReadErrorAbandonsConnection ==
    [][ ReadFailed => /\ listener' = "accept"
                      /\ Alive'
                      /\ UNCHANGED <<state, queue, sent>> ]_vars

(* C24: the tick loop never aborts: whatever messages and ticks it has     *)
(* processed, no step of handle_client ends in a panic.                    *)
C24_TickLoopNeverAborts == pc # "panicked"

----------------------------------------------------------------------------
(* services/cache.rs: restore.  The file is absent (or unreadable): <<>>,  *)
(* or holds a JSON object: a record of its fields.                         *)

TimerFields ==
    { "current_index", "elapsed_millis", "elapsed_time", "times", "iterations",
      "session_completed", "running", "socket_nr" }

(* serde_json::from_str::<Timer>: every field but the skipped one must be  *)
(* there; current_override takes its default                               *)
timer_from_str(content) ==
    IF TimerFields \subseteq DOMAIN content
    THEN Ok([ current_index     |-> content.current_index,
              elapsed_millis    |-> content.elapsed_millis,
              elapsed_time      |-> content.elapsed_time,
              times             |-> content.times,
              iterations        |-> content.iterations,
              session_completed |-> content.session_completed,
              running           |-> content.running,
              socket_nr         |-> content.socket_nr,
              current_override  |-> None ])
    ELSE Err

(* Faulty variant of match_timers: any stored durations match *)
match_timers_any(cfg, times) == TRUE

match_timers(cfg, times) ==
    LET work_time   == times[0]
        short_break == times[1]
        long_break  == times[2]
    IN  IF \/ cfg.work_time # work_time
           \/ cfg.short_break # short_break
           \/ cfg.long_break # long_break
        THEN FALSE
        ELSE TRUE

(* Faulty variant of restore_from_path: running is not restored *)
restore_from_path_not_running(t, cfg, file) ==
    IF file = None THEN t
    ELSE LET restored == timer_from_str(file[1])
         IN  IF ~restored.ok THEN t
             ELSE IF match_timers(cfg, restored.value.times)
             THEN [t EXCEPT !.current_index     = restored.value.current_index,
                            !.elapsed_millis    = restored.value.elapsed_millis,
                            !.elapsed_time      = restored.value.elapsed_time,
                            !.times             = restored.value.times,
                            !.iterations        = restored.value.iterations,
                            !.session_completed = restored.value.session_completed]
             ELSE t

(* The Timer after restore_from_path, whether it returned Ok or Err *)
restore_from_path(t, cfg, file) ==
    IF file = None THEN t
    ELSE LET restored == timer_from_str(file[1])
         IN  IF ~restored.ok THEN t
             ELSE IF match_timers(cfg, restored.value.times)
             THEN [t EXCEPT !.current_index     = restored.value.current_index,
                            !.elapsed_millis    = restored.value.elapsed_millis,
                            !.elapsed_time      = restored.value.elapsed_time,
                            !.times             = restored.value.times,
                            !.iterations        = restored.value.iterations,
                            !.session_completed = restored.value.session_completed,
                            !.running           = restored.value.running]
             ELSE t

restore(t, cfg, file) == restore_from_path(t, cfg, file)

(* Daemons that persist, started as instance 0 or 1, with one of two work  *)
(* durations; the file they find is absent or is not a Timer               *)
PersistConfigs ==
    [ work_time : {1, 2}, short_break : {1}, long_break : {1},
      autow : {TRUE}, autob : {FALSE}, persist : {TRUE} ]

Instances == {0, 1}

NotATimer == [times |-> <<2, 1>>]

PersistMessages ==
    { [type |-> "start"], [type |-> "next-state"],
      [type |-> "set-current", value |-> 1, is_delta |-> FALSE] }

InitPersist ==
    /\ config \in PersistConfigs
    /\ \E socket_nr \in Instances :
         state = new(config.work_time, config.short_break, config.long_break, socket_nr)
    /\ pc = "start"
    /\ snapshot = <<>>
    /\ notified = None
    /\ cache \in {None, Some(NotATimer)}
    /\ wrapped = FALSE
    /\ received = None
    /\ works = 0
    /\ origin = state
    /\ ChannelInit

(* handle_client before its loop: if config.persist { cache::restore } *)
Restore ==
    /\ pc = "start"
    /\ pc' = "recv"
    /\ state' = IF config.persist THEN restore(state, config, cache) ELSE state
    /\ origin' = state'
    /\ works' = state'.iterations
    /\ UNCHANGED <<config, snapshot, notified, cache, wrapped, received>>
    /\ UNCHANGED channel

(* The daemon is stopped between two iterations of its loop and started    *)
(* again, the file left as the last iteration stored it                    *)
Respawn(cfg, socket_nr) ==
    /\ pc = "recv"
    /\ pc' = "start"
    /\ config' = cfg
    /\ state' = new(cfg.work_time, cfg.short_break, cfg.long_break, socket_nr)
    /\ origin' = state'
    /\ works' = 0
    /\ snapshot' = <<>>
    /\ notified' = None
    /\ received' = None
    /\ wrapped' = FALSE
    /\ UNCHANGED cache
    /\ UNCHANGED channel

NextPersist ==
    \/ Restore
    \/ \E cfg \in PersistConfigs, socket_nr \in Instances : Respawn(cfg, socket_nr)
    \/ RecvNone
    \/ \E message \in PersistMessages : RecvMessage(message)
    \/ Emit
    \/ Sleep

SpecPersist == InitPersist /\ [][NextPersist]_vars

(* handle_client has called restore *)
Restored == pc = "start" /\ pc' = "recv"

(* The file can be read and holds a Timer *)
Parses == cache # None /\ TimerFields \subseteq DOMAIN cache[1]

(* The durations the file holds are the configured ones *)
SameTriple ==
    <<cache[1].times[0], cache[1].times[1], cache[1].times[2]>>
        = <<config.work_time, config.short_break, config.long_break>>

(* C25: restore changes the Timer only if the file can be read, holds a    *)
(* Timer and the durations in it are the configured work, short break and  *)
(* long break durations; in every other case the Timer handle_client goes  *)
(* on with is the one it had before restore.                               *)
C25_RestoreOnlyOnMatch ==
    [][ Restored => /\ state' # state => (Parses /\ SameTriple)
                    /\ ~(Parses /\ SameTriple) => state' = state ]_vars

(* A daemon configured with a work duration of 1 found the file of one     *)
(* configured with 2 and went on with its fresh Timer                      *)
C25_Witness ==
    /\ pc = "recv"
    /\ origin = state
    /\ Parses /\ ~SameTriple
    /\ cache[1].elapsed_millis > 0
    /\ state = new(config.work_time, config.short_break, config.long_break, state.socket_nr)

Progress == { "current_index", "elapsed_millis", "elapsed_time", "times", "iterations",
              "session_completed", "running" }

(* C26 as stated: a Timer stored and restored under matching durations is  *)
(* reproduced in every stored field, the instance id included.             *)
C26_Original ==
    [][ (Restored /\ Parses /\ SameTriple)
            => \A field \in TimerFields : state'[field] = cache[1][field] ]_vars

(* C26: a Timer stored and restored under matching durations is reproduced *)
(* in current_index, elapsed_millis, elapsed_time, times, iterations,      *)
(* session_completed and running; the instance id and current_override of  *)
(* the target stay what they were.                                         *)
C26_StoreRestore ==
    [][ (Restored /\ Parses /\ SameTriple)
            => /\ \A field \in Progress : state'[field] = cache[1][field]
               /\ state'.socket_nr = state.socket_nr
               /\ state'.current_override = state.current_override ]_vars

(* Instance 1 has restored what instance 0 stored while running *)
C26_Witness ==
    /\ pc = "recv"
    /\ origin = state
    /\ Parses /\ SameTriple
    /\ \A field \in Progress : state[field] = cache[1][field]
    /\ state.running /\ state.elapsed_millis > 0 /\ state.current_index = ShortBreak
    /\ state.socket_nr = 1 /\ cache[1].socket_nr = 0

----------------------------------------------------------------------------
(* Message::encode and Message::decode, applied to a message (original,    *)
(* encoded, decoded) or to a text a client wrote without encode (encoded,  *)
(* decoded).                                                               *)

MaxPad == 2

TimeValues ==
    { Set(v) : v \in (0..MaxMinutes) \cup {U16 - 1} }
    \cup { Add(v) : v \in ((0 - MaxMinutes)..MaxMinutes) \cup {0 - I16_MAX - 1, I16_MAX} }
    \cup { Subtract(v) : v \in ((0 - MaxMinutes)..MaxMinutes) \cup {0 - I16_MAX - 1, I16_MAX} }

CodecMessages ==
    { [type |-> c] : c \in UnitVariants }
    \cup { [type |-> c, time |-> time] : c \in StructVariants, time \in TimeValues }

(* Whitespace of up to n characters *)
RECURSIVE Pads(_)
Pads(n) ==
    IF n = 0 THEN { <<>> }
    ELSE Pads(n - 1) \cup { Append(pad, c) : pad \in Pads(n - 1), c \in WHITESPACE }

(* Texts that are not JSON: the keywords, a word that is no command, no    *)
(* text at all, a keyword in upper case, two keywords, the name of a       *)
(* duration command, a keyword with a letter written as a JSON escape      *)
Words ==
    { kebab_case(c) : c \in UnitVariants \cup {"set-work"} }
    \cup { <<"i", "n", "v", "a", "l", "i", "d">>,
           <<>>,
           <<"S", "T", "A", "R", "T">>,
           kebab_case("start") \o <<" ">> \o kebab_case("stop"),
           <<"s", "t", "\\", "u", "0", "0", "6", "1", "r", "t">> }

BareTexts == { before \o word \o after : before \in Pads(MaxPad), word \in Words, after \in Pads(MaxPad) }

InitCodec ==
    /\ config \in Configs
    /\ state = new(config.work_time, config.short_break, config.long_break, 0)
    /\ pc = "recv"
    /\ snapshot = <<>>
    /\ notified = None
    /\ cache = None
    /\ wrapped = FALSE
    /\ received = None
    /\ works = 0
    /\ origin = state
    /\ queue = <<>>
    /\ listener = "accept"
    /\ sent = <<>>
    /\ applied = <<>>
    /\ endpoint = "bound"
    /\ backlog = <<>>
    /\ reading = None
    /\ signals = "waiting"
    /\ codec \in { [original |-> Some(message), encoded |-> None, decoded |-> None] :
                        message \in CodecMessages }
                 \cup { [original |-> None, encoded |-> Some(text), decoded |-> None] :
                        text \in BareTexts }

(* let encoded = original.encode() *)
Encode ==
    /\ codec.original # None
    /\ codec.encoded = None
    /\ codec' = [codec EXCEPT !.encoded = Some(encode(codec.original[1]))]
    /\ UNCHANGED <<queue, listener, sent, applied, socket>>
    /\ UNCHANGED timer

(* let decoded = Message::decode(&encoded) *)
Decode ==
    /\ codec.encoded # None
    /\ codec.decoded = None
    /\ codec' = [codec EXCEPT !.decoded = Some(decode(codec.encoded[1]))]
    /\ UNCHANGED <<queue, listener, sent, applied, socket>>
    /\ UNCHANGED timer

NextCodec ==
    \/ Encode
    \/ Decode

SpecCodec == InitCodec /\ [][NextCodec]_vars

(* C27: decode(encode(m)) = m for every message m. *)
C27_RoundTrip ==
    (codec.original # None /\ codec.decoded # None)
        => codec.decoded[1] = Ok(codec.original[1])

(* C28: decode maps each of the five keywords, with whitespace before and  *)
(* after it, to its command, and fails on every other text that is not     *)
(* JSON.                                                                   *)
C28_BareKeywords ==
    (codec.original = None /\ codec.decoded # None)
        => IF \E c \in UnitVariants : trim(codec.encoded[1]) = kebab_case(c)
           THEN \E c \in UnitVariants : /\ trim(codec.encoded[1]) = kebab_case(c)
                                        /\ codec.decoded[1] = Ok([type |-> c])
           ELSE ~codec.decoded[1].ok

----------------------------------------------------------------------------
(* Absolute values at the ends of the range: the largest number of minutes *)
(* whose seconds fit u16, the one after it, and a negative one             *)

RangeMessages ==
    {[type |-> "start"]}
    \cup DurationCommands({1, U16 \div 60, (U16 \div 60) + 1, -1}, {})

NextRange ==
    \/ RecvNone
    \/ \E message \in RangeMessages : RecvMessage(message)
    \/ Emit
    \/ Sleep

SpecRange == Init /\ [][NextRange]_vars

(* The seconds m minutes are, if u16 holds them *)
Fits(m) == m >= 0 /\ m * 60 < U16

(* C29: an absolute value of m minutes is stored as exactly m*60 seconds   *)
(* when m*60 fits u16; a value that does not fit, or is negative, is       *)
(* rejected: nothing wrapped or truncated is stored and the Timer is not   *)
(* changed.                                                                *)
C29_AbsoluteValueInRange ==
    [][ \A message \in RangeMessages :
          ( /\ message.type # "start"
            /\ pc = "recv"
            /\ received' = Some(message) )
          => IF Fits(message.value)
             THEN /\ pc' = "emit"
                  /\ Target(state', message) = message.value * 60
             ELSE /\ pc' = "emit"
                  /\ state' = state ]_vars

----------------------------------------------------------------------------
(* The daemon as instance 0 or as another instance *)

InitInstance ==
    /\ config \in Configs
    /\ \E socket_nr \in Instances :
         state = new(config.work_time, config.short_break, config.long_break, socket_nr)
    /\ pc = "recv"
    /\ snapshot = <<>>
    /\ notified = None
    /\ cache = None
    /\ wrapped = FALSE
    /\ received = None
    /\ works = 0
    /\ origin = state
    /\ ChannelInit

SpecInstance == InitInstance /\ [][Next]_vars

(* C30: a notification is triggered only by a firing of the transition     *)
(* rule in the daemon whose instance id is 0, once for the firing and for  *)
(* the cycle it leads to; a daemon with another instance id never triggers *)
(* one.                                                                    *)
C30_NotificationOfInstanceZero ==
    [][ /\ notified' # None
            => /\ TransitionFires
               /\ state.socket_nr = 0
               /\ notified' = Some(state'.current_index)
        /\ (TransitionFires /\ state.socket_nr = 0)
            => notified' = Some(state'.current_index)
        /\ state.socket_nr # 0 => notified' = None ]_vars

(* Instance 1 has just gone from Work to a short break and notified nothing *)
C30_Witness ==
    /\ state.socket_nr = 1
    /\ pc = "sleep"
    /\ snapshot # <<>> /\ snapshot[1].class = CLASS_WORK
    /\ state.current_index = ShortBreak
    /\ state.elapsed_time = 0
    /\ notified = None

----------------------------------------------------------------------------
(* C31: every cycle starts with no accumulated time: right after the       *)
(* transition rule has fired, elapsed_time and elapsed_millis are both 0.  *)
C31_CycleStartsAtZero ==
    [][ TransitionFires => /\ state'.elapsed_time = 0
                           /\ state'.elapsed_millis = 0 ]_vars

----------------------------------------------------------------------------
(* The iteration of the loop has advanced elapsed_time to the duration of   *)
(* the cycle                                                                *)
Reached ==
    /\ pc = "sleep" /\ pc' = "recv"
    /\ state'.elapsed_time = state.elapsed_time + 1
    /\ state'.elapsed_time = get_current_time(state')

(* C32: the transition rule is evaluated after time advances in the same   *)
(* iteration of the loop: when an iteration advances elapsed_time to the    *)
(* duration of the cycle, the Timer that iteration ends with, and stores if *)
(* persistence is enabled, is already at the start of the following cycle.  *)
C32_TransitionAfterAdvance ==
    [][ Reached => /\ state'.current_index # state.current_index
                   /\ state'.elapsed_time = 0
                   /\ config.persist => cache' = store(state') ]_vars

----------------------------------------------------------------------------
(* The daemon with the loop of handle_client scheduled: while the process   *)
(* lives, each step of the loop is eventually taken.                        *)
DeliveryFrames ==
    { kebab_case("start"),
      encode([type |-> "set-current", time |-> Subtract(1)]),
      EXIT }

NextDelivery ==
    \/ \E frame \in DeliveryFrames : Connect(frame, TRUE)
    \/ AcceptConnection
    \/ ReadFrame
    \/ ReadFails
    \/ FrameRecvNone
    \/ FrameRecv
    \/ FrameEmit
    \/ FrameSleep

(* rx.try_recv() takes the oldest frame off the channel *)
Polls ==
    /\ Alive
    /\ pc = "recv"
    /\ queue # <<>>
    /\ queue' = Tail(queue)

SpecDelivery ==
    /\ Init /\ [][NextDelivery]_vars
    /\ WF_vars(FrameRecvNone)
    /\ WF_queue(Polls)
    /\ WF_vars(FrameEmit)
    /\ WF_vars(FrameSleep)

(* The run has left the durations the model follows *)
Unfollowed == pc = "sleep" /\ ~Followed

(* The k-th frame the listener sent has been applied *)
Delivered(k) == Len(applied) >= k

(* C33: as long as no exit frame is received, every frame the listener has *)
(* pushed to the queue is eventually applied by handle_client, and an       *)
(* iteration of the loop that finds the queue not empty takes its oldest    *)
(* frame, so that the k-th frame of the queue is applied by the k-th        *)
(* iteration.                                                               *)
C33_QueuedFramesApplied ==
    /\ \A k \in 1..MaxSent :
          (Len(sent) >= k) ~> (Delivered(k) \/ listener = "exited" \/ Unfollowed)
    /\ [][ (pc = "recv" /\ pc' # "recv" /\ queue # <<>>)
              => /\ queue' = Tail(queue)
                 /\ applied' = Append(applied, Head(queue)) ]_vars

----------------------------------------------------------------------------
(* The daemon left to itself: every combination of the auto flags, and a    *)
(* user who sends start or toggle only while the timer is stopped.  The     *)
(* loop of handle_client is scheduled: each of its steps is eventually      *)
(* taken.  The run is followed through every value of session_completed.    *)

CycleConfigs ==
    [ work_time : {1}, short_break : {1}, long_break : {1},
      autow : BOOLEAN, autob : BOOLEAN, persist : {FALSE} ]

InitCycle ==
    /\ config \in CycleConfigs
    /\ state = new(config.work_time, config.short_break, config.long_break, 0)
    /\ pc = "recv"
    /\ snapshot = <<>>
    /\ notified = None
    /\ cache = None
    /\ wrapped = FALSE
    /\ received = None
    /\ works = 0
    /\ origin = state
    /\ ChannelInit

ResumeMessages == { [type |-> "start"], [type |-> "toggle"] }

Resume(message) ==
    /\ ~state.running
    /\ RecvMessage(message)

NextCycle ==
    \/ RecvNone
    \/ \E message \in ResumeMessages : Resume(message)
    \/ Emit
    \/ Advance

SpecCycle ==
    /\ InitCycle /\ [][NextCycle]_vars
    /\ WF_vars(RecvNone)
    /\ WF_vars(Emit)
    /\ WF_vars(Advance)

(* Running with both auto flags set: no message arrives from here on *)
Cycling == state.running /\ config.autow /\ config.autob

(* C34: once the timer runs with both auto flags set and no further        *)
(* message arrives, every cycle completes, the timer is on Work, on         *)
(* ShortBreak and on LongBreak infinitely often and session_completed       *)
(* eventually increases; with a flag off, a stopped timer runs again only   *)
(* in a step that applies start or toggle.                                  *)
C34_CycleLiveness ==
    /\ <>[]~Cycling \/ []<><<TransitionFires>>_vars
    /\ \A c \in CycleType : [](Cycling => []<>(state.current_index = c))
    /\ <>[]~Cycling \/ []<><<state'.session_completed > state.session_completed>>_vars
    /\ [][ (~(config.autow /\ config.autob) /\ ~state.running /\ state'.running)
              => \E message \in ResumeMessages : Processed(message) ]_vars

----------------------------------------------------------------------------
(* C35: the timer is on LongBreak exactly when iterations equals            *)
(* MAX_ITERATIONS; on Work iterations is at most MAX_ITERATIONS - 1 and on  *)
(* ShortBreak at most MAX_ITERATIONS - 2; the transition that completes a   *)
(* LongBreak leads to Work, never through the toggle to ShortBreak.         *)
C35_LongBreakIffMaxIterations ==
    /\ [](/\ state.current_index = LongBreak <=> state.iterations = MAX_ITERATIONS
          /\ state.current_index = Work => state.iterations <= MAX_ITERATIONS - 1
          /\ state.current_index = ShortBreak => state.iterations <= MAX_ITERATIONS - 2)
    /\ [][ (TransitionFires /\ state.current_index = LongBreak)
              => state'.current_index = Work ]_vars

(* The long break has completed by ticking and the timer is back on Work *)
C35_Witness ==
    /\ pc = "sleep"
    /\ notified = Some(Work)
    /\ received = None
    /\ state.current_index = Work
    /\ state.iterations = 0
    /\ state.session_completed = 1

----------------------------------------------------------------------------
(* C36: a daemon that restores, under the same configured durations, the    *)
(* Timer another one stored goes on with a Timer whose elapsed_time is at   *)
(* most the duration of its cycle and whose index, milliseconds and         *)
(* iterations are in range, also when the stored Timer had an override of   *)
(* the duration of its cycle.                                               *)
C36_RestoreKeepsInvariants ==
    [][ (Restored /\ Parses /\ SameTriple)
            => /\ state'.elapsed_time <= get_current_time(state')
               /\ state'.current_index \in 0..2
               /\ state'.elapsed_millis \in 0..999
               /\ state'.iterations \in 0..MAX_ITERATIONS ]_vars

----------------------------------------------------------------------------
(* handle_client prints the snapshot of this iteration *)
Emitted == pc = "emit" /\ pc' = "sleep"

(* C37: the empty class means the timer has not been started yet: whenever *)
(* handle_client emits a snapshot whose class is empty, the Timer the       *)
(* snapshot was taken of is on Work and not running.                        *)
C37_EmptyClassNotStarted ==
    [][ (Emitted /\ snapshot'[1].class = CLASS_EMPTY)
            => /\ state.current_index = Work
               /\ ~state.running ]_vars

----------------------------------------------------------------------------
(* The Timer after `first` and then `second` have been processed *)
Twice(first, second) ==
    process_message(process_message(state, [type |-> first], config, TRUE),
                    [type |-> second], config, TRUE)

Once(command) == process_message(state, [type |-> command], config, TRUE)

(* C38: start sets running to true, stop sets it to false and toggle       *)
(* inverts it, and none of the three changes another field of the Timer;    *)
(* start and stop are idempotent and two toggles in a row restore the       *)
(* Timer.                                                                   *)
C38_StartStopToggle ==
    /\ [][ /\ Processed([type |-> "start"]) => state' = [state EXCEPT !.running = TRUE]
           /\ Processed([type |-> "stop"]) => state' = [state EXCEPT !.running = FALSE]
           /\ Processed([type |-> "toggle"])
                 => state' = [state EXCEPT !.running = ~state.running] ]_vars
    /\ [](/\ Twice("start", "start") = Once("start")
          /\ Twice("stop", "stop") = Once("stop")
          /\ Twice("toggle", "toggle") = state)

(* A toggle has paused a running timer part of the way through a break *)
C38_Witness ==
    /\ pc = "emit"
    /\ received = Some([type |-> "toggle"])
    /\ ~state.running
    /\ state.current_index = ShortBreak
    /\ state.elapsed_millis > 0

----------------------------------------------------------------------------
(* control_cli.rs: from the argument of a set command to the Timer.  The    *)
(* request of the last set command is kept in codec.                        *)

(* str::parse::<i16>: an optional sign, then digits *)
parse_i16(s) ==
    LET signed == s # <<>> /\ s[1] \in SIGNS
        digits == IF signed THEN Tail(s) ELSE s
        number == IF signed /\ s[1] = "-" THEN 0 - digits_value(digits)
                  ELSE digits_value(digits)
    IN  IF digits = <<>> \/ ~(Chars(digits) \subseteq Chars(DIGITS)) THEN Err
        ELSE IF number < 0 - (I16_MAX + 1) \/ number > I16_MAX THEN Err
        ELSE Ok(number)

strip_suffix(s) == SubSeq(s, 1, Len(s) - 1)

ends_with(s, c) == s # <<>> /\ s[Len(s)] = c

parse_time_value(s) ==
    IF ends_with(s, "+")
    THEN LET delta == parse_i16(strip_suffix(s))
         IN  IF delta.ok THEN Ok(Add(delta.value)) ELSE Err
    ELSE IF ends_with(s, "-")
    THEN LET delta == parse_i16(strip_suffix(s))
         IN  IF delta.ok THEN Ok(Subtract(delta.value)) ELSE Err
    ELSE LET digits == IF s # <<>> /\ s[1] = "+" THEN Tail(s) ELSE s
         IN  IF digits = <<>> \/ ~(Chars(digits) \subseteq Chars(DIGITS)) THEN Err
             ELSE IF parse_u16(digits).ok THEN Ok(Set(parse_u16(digits).value))
             ELSE Err

(* The arguments the user gives: 1+, 1- and 1 *)
ControlTexts == { <<"1", "+">>, <<"1", "-">>, <<"1">> }

(* waybar-module-pomodoro-ctl set-... text: the argument is parsed, the     *)
(* message encoded and written to the socket; process_message decodes and   *)
(* applies it                                                               *)
Request(command, text) ==
    /\ parse_time_value(text).ok
    /\ Receive(Decoded(encode([type |-> command, time |-> parse_time_value(text).value])))
    /\ codec' = Some([command |-> command, text |-> text])
    /\ UNCHANGED <<queue, listener, sent, applied, socket>>

ControlMessages == { [type |-> "start"], [type |-> "next-state"] }

NextControl ==
    \/ RecvNone
    \/ \E message \in ControlMessages : RecvMessage(message)
    \/ \E command \in StructVariants, text \in ControlTexts : Request(command, text)
    \/ Emit
    \/ Sleep

SpecControl == Init /\ [][NextControl]_vars

(* process_message has applied the request `command text` *)
Requested(command, text) ==
    /\ pc = "recv" /\ pc' = "emit"
    /\ received' # None /\ received'[1].type = command
    /\ codec' = Some([command |-> command, text |-> text])

(* C39: a request with the subtract notation (set-work 1-, set-current 1-) *)
(* reduces the duration it is aimed at by that many minutes, floored at 0,  *)
(* and a request with the add notation (1+) increases it by that many       *)
(* minutes.                                                                 *)
C39_SignAppliedOnce ==
    [][ \A command \in StructVariants, text \in ControlTexts :
          LET minutes == digits_value(strip_suffix(text))
              before  == Target(state, [type |-> command])
              after   == Target(state', [type |-> command])
          IN  /\ (Requested(command, text) /\ ends_with(text, "-"))
                    => after = Max(before - minutes * 60, 0)
              /\ (Requested(command, text) /\ ends_with(text, "+"))
                    => after = before + minutes * 60 ]_vars

----------------------------------------------------------------------------
(* set-current with an absolute value and with a delta, on every cycle *)

CurrentMessages ==
    { [type |-> "start"], [type |-> "next-state"] }
    \cup { [type |-> "set-current", value |-> v, is_delta |-> FALSE] : v \in 0..(MaxMinutes + 1) }
    \cup { [type |-> "set-current", value |-> v, is_delta |-> TRUE] :
              v \in (0 - MaxMinutes)..MaxMinutes }

NextCurrent ==
    \/ RecvNone
    \/ \E message \in CurrentMessages : RecvMessage(message)
    \/ Emit
    \/ Sleep

SpecCurrent == Init /\ [][NextCurrent]_vars

SetCurrentTo(m) == Processed([type |-> "set-current", value |-> m, is_delta |-> FALSE])

SetCurrentBy(d) == Processed([type |-> "set-current", value |-> d, is_delta |-> TRUE])

(* The delta follows a set-current and its result stays positive *)
Following(d) ==
    /\ SetCurrentBy(d)
    /\ state.current_override # None
    /\ get_current_time(state) + d * 60 > 0

====
